---- MODULE Spec2Model ----
(***************************************************************************)
(* Negotiation Agent API (src/app.py): the session store, the phase        *)
(* engine (process_negotiation_step and its four handlers) and the HTTP    *)
(* handlers /start-negotiation, /respond, /respond-stream, GET and DELETE  *)
(* /session/{id}.                                                          *)
(*                                                                         *)
(* Text is modelled as a sequence of one-character strings, so that        *)
(* str.lower(), the `in` substring test and the regular expression         *)
(* r'₹?(\d+)' are computed on characters.  The rupee glyph is the single    *)
(* character "RUPEE".  A Python dict is a TLA+ function whose domain is    *)
(* the set of keys present; Optional[int] is a sequence of length <= 1.    *)
(* An f-string is a record [tmpl, nums, strs]: the template and the values *)
(* substituted in it; the empty string is the record with tmpl = "".       *)
(***************************************************************************)
EXTENDS Integers, Sequences, FiniteSets, TLC

(***************************************************************************)
(* Bounds of the model.                                                    *)
(***************************************************************************)
\* sessions started in one run of the service
MaxSessions == 2
\* requests that read the clock in one run of the service
MaxClock == 3
\* /respond-stream responses in flight at the same time
MaxStreams == 2
\* a non-empty bot message is streamed as this many character frames
MaxFrames == 2
\* client turns of one conversation
MaxTurns == 4

(***************************************************************************)
(* Characters and strings.                                                 *)
(***************************************************************************)
UpperCase ==
    <<"A","B","C","D","E","F","G","H","I","J","K","L","M",
      "N","O","P","Q","R","S","T","U","V","W","X","Y","Z">>

LowerCase ==
    <<"a","b","c","d","e","f","g","h","i","j","k","l","m",
      "n","o","p","q","r","s","t","u","v","w","x","y","z">>

Digits == <<"0","1","2","3","4","5","6","7","8","9">>

IndexIn(c, tbl) ==
    IF \E i \in 1..Len(tbl) : tbl[i] = c
      THEN CHOOSE i \in 1..Len(tbl) : tbl[i] = c
      ELSE 0

IsDigit(c) == IndexIn(c, Digits) # 0

DigitVal(c) == IndexIn(c, Digits) - 1

\* str.lower()
Lower(s) ==
    [i \in 1..Len(s) |->
        IF IndexIn(s[i], UpperCase) # 0 THEN LowerCase[IndexIn(s[i], UpperCase)] ELSE s[i]]

\* str.replace("_", " ")
ReplaceUnderscore(s) == [i \in 1..Len(s) |-> IF s[i] = "_" THEN " " ELSE s[i]]

IsLetter(c) == IndexIn(c, UpperCase) # 0 \/ IndexIn(c, LowerCase) # 0

\* str.title(): a letter that follows a non-letter is upper-cased, every other letter lower-cased
Title(s) ==
    [i \in 1..Len(s) |->
        IF ~IsLetter(s[i]) THEN s[i]
        ELSE IF i = 1 \/ ~IsLetter(s[i-1])
               THEN UpperCase[IndexIn(Lower(<<s[i]>>)[1], LowerCase)]
               ELSE Lower(<<s[i]>>)[1]]

\* w in s
Contains(s, w) ==
    \E i \in 1..(Len(s) - Len(w) + 1) : SubSeq(s, i, i + Len(w) - 1) = w

\* int(digits), base 10
RECURSIVE ParseInt(_)
ParseInt(ds) ==
    IF ds = << >> THEN 0
    ELSE 10 * ParseInt(SubSeq(ds, 1, Len(ds) - 1)) + DigitVal(ds[Len(ds)])

\* a search that keeps the last digit run of s instead of the first
PriceMatchLastRun(s) ==
    IF \E i \in 1..Len(s) : IsDigit(s[i])
      THEN LET last  == CHOOSE k \in 1..Len(s) :
                            IsDigit(s[k]) /\ \A j \in (k+1)..Len(s) : ~IsDigit(s[j])
               first == CHOOSE i \in 1..last :
                            /\ \A j \in i..last : IsDigit(s[j])
                            /\ (i = 1 \/ ~IsDigit(s[i-1]))
           IN  <<SubSeq(s, first, last)>>
      ELSE << >>

\* re.search(r'₹?(\d+)', s): the leftmost match starts at the leftmost digit (or at a
\* rupee glyph right before it); group(1) is the maximal digit run from there.
\* << >> when there is no match, <<digits>> otherwise.
PriceMatch(s) ==
    IF \E i \in 1..Len(s) : IsDigit(s[i])
      THEN LET first == CHOOSE i \in 1..Len(s) :
                            IsDigit(s[i]) /\ \A j \in 1..(i-1) : ~IsDigit(s[j])
               last  == CHOOSE k \in first..Len(s) :
                            /\ \A j \in first..k : IsDigit(s[j])
                            /\ (k = Len(s) \/ ~IsDigit(s[k+1]))
           IN  <<SubSeq(s, first, last)>>
      ELSE << >>

AcceptWord == <<"a","c","c","e","p","t">>
YesWord == <<"y","e","s">>

\* the list ["campaign", "what", "about", "details", "?"]
DetailWords ==
    { <<"c","a","m","p","a","i","g","n">>, <<"w","h","a","t">>, <<"a","b","o","u","t">>,
      <<"d","e","t","a","i","l","s">>, <<"?">> }

\* "accept" in user_input.lower() or "yes" in user_input.lower()
HasAcceptKeyword(s) == Contains(Lower(s), AcceptWord) \/ Contains(Lower(s), YesWord)

(***************************************************************************)
(* Inputs of the requests.                                                 *)
(***************************************************************************)
\* NegotiationStart.budget
Budgets == {0, 20, 100}

\* NegotiationStart.campaign_type; the first is the default "social_media"
CampaignTypes == { <<"s","o","c","i","a","l","_","m","e","d","i","a">> }

\* NegotiationStart.duration; the default "2_weeks"
Durations == { <<"2","_","w","e","e","k","s">> }

\* "yes please"
MsgYesPlease == <<"y","e","s"," ","p","l","e","a","s","e">>

\* "ACCEPT 115"
MsgAcceptNumber == <<"A","C","C","E","P","T"," ","1","1","5">>

\* "I want ₹115"
MsgWant115 == <<"I"," ","w","a","n","t"," ","RUPEE","1","1","5">>

\* "23 or 99"
Msg23Or99 == <<"2","3"," ","o","r"," ","9","9">>

\* "₹0"
MsgZero == <<"RUPEE","0">>

\* "what?"
MsgWhat == <<"w","h","a","t","?">>

\* "no thanks"
MsgNoThanks == <<"n","o"," ","t","h","a","n","k","s">>

\* UserResponse.message
Messages ==
    {MsgYesPlease, MsgAcceptNumber, MsgWant115, Msg23Or99, MsgZero, MsgWhat, MsgNoThanks}

\* the values uuid4 hands out, named in the order they are generated
SessionIds == 1..MaxSessions

(***************************************************************************)
(* int(budget * 1.15) in IEEE-754 binary64.                                *)
(* The literal 1.15 is the double 0x1.2666666666666p+0, that is            *)
(* 0x12666666666666 / 2^52.  The product with an integer is formed         *)
(* exactly on bit strings (least significant bit first), rounded to 53     *)
(* significant bits, ties to even, and int() drops the fraction.           *)
(***************************************************************************)
\* the 53-bit significand 0x12666666666666, least significant bit first
Mant115 ==
    <<0,1,1,0, 0,1,1,0, 0,1,1,0, 0,1,1,0, 0,1,1,0, 0,1,1,0,
      0,1,1,0, 0,1,1,0, 0,1,1,0, 0,1,1,0, 0,1,1,0, 0,1,1,0,
      0,1,0,0, 1>>

\* exponent of the significand: 1.15 == Mant115 * 2^-FracBits
FracBits == 52

\* significant bits of a binary64
SigBits == 53

RECURSIVE NatBits(_)
NatBits(n) == IF n = 0 THEN << >> ELSE <<n % 2>> \o NatBits(n \div 2)

RECURSIVE BitsNat(_)
BitsNat(bs) == IF bs = << >> THEN 0 ELSE bs[1] + 2 * BitsNat(Tail(bs))

\* n * bs, exact, for a natural n
RECURSIVE MulBits(_, _, _)
MulBits(bs, n, carry) ==
    IF bs = << >> THEN NatBits(carry)
    ELSE <<(n * bs[1] + carry) % 2>> \o MulBits(Tail(bs), n, (n * bs[1] + carry) \div 2)

\* bs + 1
RECURSIVE IncBits(_)
IncBits(bs) ==
    IF bs = << >> THEN <<1>>
    ELSE IF bs[1] = 0 THEN <<1>> \o Tail(bs)
    ELSE <<0>> \o IncBits(Tail(bs))

\* round a bit string to SigBits significant bits, ties to even; the result keeps its scale
RoundToDouble(p) ==
    IF Len(p) <= SigBits THEN p
    ELSE LET s    == Len(p) - SigBits
             q    == SubSeq(p, s + 1, Len(p))
             half == p[s] = 1 /\ \A j \in 1..(s-1) : p[j] = 0
             more == p[s] = 1 /\ \E j \in 1..(s-1) : p[j] = 1
             up   == more \/ (half /\ q[1] = 1)
         IN  [j \in 1..s |-> 0] \o (IF up THEN IncBits(q) ELSE q)

\* int(n * 1.15) for a natural n
TruncMul115(n) ==
    IF n = 0 THEN 0
    ELSE LET r == RoundToDouble(MulBits(Mant115, n, 0))
         IN  BitsNat(SubSeq(r, FracBits + 1, Len(r)))

\* int(budget * 1.15): the product has the sign of budget and int() truncates toward zero
IntMul115(budget) ==
    IF budget >= 0 THEN TruncMul115(budget) ELSE 0 - TruncMul115(0 - budget)

\* int(budget * 1.15) of every budget a session can have, computed once
StretchCeiling == [budget \in Budgets |-> IntMul115(budget)]

(***************************************************************************)
(* Values.                                                                 *)
(***************************************************************************)
\* Optional[int]: None and a present value
None == << >>

Some(v) == <<v>>

\* an f-string: its template, the integers and the strings substituted in it
Txt(tmpl, nums, strs) == [tmpl |-> tmpl, nums |-> nums, strs |-> strs]

\* the empty string, also the default of result.get("bot_response", "")
EmptyText == Txt("", << >>, << >>)

\* dict.get(key, default)
Get(d, key, default) == IF key \in DOMAIN d THEN d[key] ELSE default

(***************************************************************************)
(* The phase engine.  Every handler takes the state dict and the value of  *)
(* datetime.now() and returns the result dict; a raised exception is the   *)
(* dict with the single key "exception".                                   *)
(***************************************************************************)
brand_initial_offer(state, now) ==
    LET budget == state.budget
        campaign_display == Title(ReplaceUnderscore(state.campaign_type))
        duration_display == Title(ReplaceUnderscore(state.duration))
    IN  IF budget = 0
          THEN [exception |-> "Missing budget in state"]
          ELSE [messages |-> <<Txt("Brand offers {budget} for {campaign_display} campaign ({duration_display})",
                                   <<budget>>, <<campaign_display, duration_display>>)>>,
                brand_offer |-> budget,
                negotiation_phase |-> "waiting_for_influencer_response",
                negotiation_rounds |-> state.negotiation_rounds + 1,
                bot_response |-> Txt("Brand: Hello! ... our budget is {budget}. What are your thoughts on this collaboration?",
                                     <<budget>>, <<campaign_display, duration_display>>),
                options |-> <<Txt("Accept the offer", << >>, << >>),
                              Txt("Counter with your price", << >>, << >>),
                              Txt("Ask about campaign details", << >>, << >>)>>,
                last_activity |-> now]

\* the dict returned when the influencer accepts
influencer_accepts(state, now) ==
    LET brand_offer == state.brand_offer
        rounds == state.negotiation_rounds
    IN  [messages |-> <<Txt("Influencer accepts {brand_offer}", <<brand_offer>>, << >>)>>,
         agreed_price |-> Some(brand_offer),
         negotiation_phase |-> "completed",
         negotiation_rounds |-> rounds + 1,
         bot_response |-> Txt("Influencer: I accept your offer of {brand_offer}! Brand: Excellent! We have a deal!",
                              <<brand_offer>>, << >>),
         is_complete |-> TRUE,
         last_activity |-> now]

\* a counter-offer written into budget as well
influencer_counters_into_budget(state, now, price_match) ==
    LET rounds == state.negotiation_rounds
        counter_offer == ParseInt(price_match[1])
    IN  [messages |-> <<Txt("Influencer counters with {counter_offer}", <<counter_offer>>, << >>)>>,
         influencer_offer |-> counter_offer,
         budget |-> counter_offer,
         negotiation_phase |-> "brand_considering",
         negotiation_rounds |-> rounds + 1,
         bot_response |-> Txt("Influencer: I was thinking more along the lines of {counter_offer}. Brand: Let me consider your offer...",
                              <<counter_offer>>, << >>),
         last_activity |-> now]

\* the dict returned for a counter-offer; price_match is the match object
influencer_counters(state, now, price_match) ==
    LET rounds == state.negotiation_rounds
        counter_offer == ParseInt(price_match[1])
    IN  [messages |-> <<Txt("Influencer counters with {counter_offer}", <<counter_offer>>, << >>)>>,
         influencer_offer |-> counter_offer,
         negotiation_phase |-> "brand_considering",
         negotiation_rounds |-> rounds + 1,
         bot_response |-> Txt("Influencer: I was thinking more along the lines of {counter_offer}. Brand: Let me consider your offer...",
                              <<counter_offer>>, << >>),
         last_activity |-> now]

\* the dict returned for a question about the campaign
brand_explains_campaign(state, now) ==
    LET brand_offer == state.brand_offer
        rounds == state.negotiation_rounds
        campaign_type == ReplaceUnderscore(state.campaign_type)
        duration == ReplaceUnderscore(state.duration)
    IN  [messages |-> <<Txt("Brand explains campaign details", << >>, << >>)>>,
         negotiation_phase |-> "waiting_for_decision",
         negotiation_rounds |-> rounds + 1,
         bot_response |-> Txt("Brand: This is a {campaign_type} campaign ... Duration: {duration} ... what do you think about our offer of {brand_offer}?",
                              <<brand_offer>>, <<campaign_type, duration>>),
         options |-> <<Txt("Accept {brand_offer}", <<brand_offer>>, << >>),
                       Txt("Make counter-offer", << >>, << >>),
                       Txt("Need more details", << >>, << >>)>>,
         last_activity |-> now]

\* a brand that gives up after asking once
brand_asks_clarification_once(state, now) ==
    LET brand_offer == state.brand_offer
        rounds == state.negotiation_rounds
    IN  [messages |-> <<Txt("Brand asks for clarification", << >>, << >>)>>,
         negotiation_phase |-> IF state.negotiation_phase = "waiting_for_decision"
                                 THEN "failed" ELSE "waiting_for_decision",
         negotiation_rounds |-> rounds + 1,
         bot_response |-> Txt("Brand: I'd like to understand your position better. Are you interested in accepting {brand_offer}, or do you have a different rate in mind?",
                              <<brand_offer>>, << >>),
         options |-> <<Txt("Accept {brand_offer}", <<brand_offer>>, << >>),
                       Txt("Make counter-offer", << >>, << >>)>>,
         last_activity |-> now]

\* the default dict: the brand asks for clarification
brand_asks_clarification(state, now) ==
    LET brand_offer == state.brand_offer
        rounds == state.negotiation_rounds
    IN  [messages |-> <<Txt("Brand asks for clarification", << >>, << >>)>>,
         negotiation_phase |-> "waiting_for_decision",
         negotiation_rounds |-> rounds + 1,
         bot_response |-> Txt("Brand: I'd like to understand your position better. Are you interested in accepting {brand_offer}, or do you have a different rate in mind?",
                              <<brand_offer>>, << >>),
         options |-> <<Txt("Accept {brand_offer}", <<brand_offer>>, << >>),
                       Txt("Make counter-offer", << >>, << >>)>>,
         last_activity |-> now]

\* a handler that looks for a price before it looks for an accept keyword
handle_influencer_response_price_first(state, now) ==
    LET user_input == state.user_input
        price_match == PriceMatch(user_input)
    IN  IF price_match # << >> THEN influencer_counters(state, now, price_match)
        ELSE IF HasAcceptKeyword(user_input) THEN influencer_accepts(state, now)
        ELSE IF \E word \in DetailWords : Contains(Lower(user_input), word)
          THEN brand_explains_campaign(state, now)
        ELSE brand_asks_clarification(state, now)

handle_influencer_response(state, now) ==
    LET user_input == state.user_input
        price_match == PriceMatch(user_input)
    IN  IF HasAcceptKeyword(user_input) THEN influencer_accepts(state, now)
        ELSE IF price_match # << >> THEN influencer_counters(state, now, price_match)
        ELSE IF \E word \in DetailWords : Contains(Lower(user_input), word)
          THEN brand_explains_campaign(state, now)
        ELSE brand_asks_clarification(state, now)

brand_considers_counter(state, now) ==
    LET influencer_offer == state.influencer_offer
        budget == state.budget
        rounds == state.negotiation_rounds
        max_budget == StretchCeiling[budget]
    IN  IF influencer_offer = 0 \/ budget = 0
          THEN [negotiation_phase |-> "error"]
        ELSE IF influencer_offer <= budget
          THEN [messages |-> <<Txt("Brand accepts {influencer_offer}", <<influencer_offer>>, << >>)>>,
                agreed_price |-> Some(influencer_offer),
                negotiation_phase |-> "completed",
                negotiation_rounds |-> rounds + 1,
                bot_response |-> Txt("Brand: {influencer_offer} works perfectly for us! Let's proceed with the collaboration.",
                                     <<influencer_offer>>, << >>),
                is_complete |-> TRUE,
                last_activity |-> now]
        ELSE IF influencer_offer <= max_budget
          THEN [messages |-> <<Txt("Brand accepts {influencer_offer}", <<influencer_offer>>, << >>)>>,
                agreed_price |-> Some(influencer_offer),
                negotiation_phase |-> "completed",
                negotiation_rounds |-> rounds + 1,
                bot_response |-> Txt("Brand: {influencer_offer} is a bit higher than our initial budget, but we really like your content. We can agree to {influencer_offer}!",
                                     <<influencer_offer, influencer_offer>>, << >>),
                is_complete |-> TRUE,
                last_activity |-> now]
        ELSE LET final_offer == max_budget
             IN  [messages |-> <<Txt("Brand's final offer: {final_offer}", <<final_offer>>, << >>)>>,
                  brand_offer |-> final_offer,
                  negotiation_phase |-> "final_decision",
                  negotiation_rounds |-> rounds + 1,
                  bot_response |-> Txt("Brand: {influencer_offer} is beyond our current budget. The highest we can go is {final_offer}. This is our final offer.",
                                       <<influencer_offer, final_offer>>, << >>),
                  options |-> <<Txt("Accept final offer", << >>, << >>),
                                Txt("Decline offer", << >>, << >>)>>,
                  last_activity |-> now]

\* a refusal of the final offer that sends the brand back to considering
handle_final_decision_reconsiders(state, now) ==
    IF HasAcceptKeyword(state.user_input) THEN influencer_accepts(state, now)
    ELSE [messages |-> <<Txt("Brand reconsiders", << >>, << >>)>>,
          negotiation_phase |-> "brand_considering",
          negotiation_rounds |-> state.negotiation_rounds + 1,
          bot_response |-> Txt("Brand: Let me consider your offer...", << >>, << >>),
          last_activity |-> now]

\* a final decision dispatched to the handler of the waiting phases
handle_final_decision_as_response(state, now) == handle_influencer_response(state, now)

handle_final_decision(state, now) ==
    LET final_offer == state.brand_offer
        user_input == state.user_input
        rounds == state.negotiation_rounds
    IN  IF HasAcceptKeyword(user_input)
          THEN [messages |-> <<Txt("Influencer accepts final offer of {final_offer}", <<final_offer>>, << >>)>>,
                agreed_price |-> Some(final_offer),
                negotiation_phase |-> "completed",
                negotiation_rounds |-> rounds + 1,
                bot_response |-> Txt("Influencer: Yes, I'll accept {final_offer}! Brand: Excellent! We have a deal at {final_offer}!",
                                     <<final_offer, final_offer>>, << >>),
                is_complete |-> TRUE,
                last_activity |-> now]
          ELSE [messages |-> <<Txt("Negotiation failed - no agreement reached", << >>, << >>)>>,
                agreed_price |-> None,
                negotiation_phase |-> "failed",
                negotiation_rounds |-> rounds + 1,
                bot_response |-> Txt("Influencer: I appreciate the offer, but I can't accept {final_offer}. Brand: We understand. Unfortunately, we can't go higher. Thanks for considering!",
                                     <<final_offer>>, << >>),
                is_complete |-> TRUE,
                last_activity |-> now]

\* the generic failure message of the dispatcher's last branch
GenericFailure == Txt("Something went wrong. Please start over.", << >>, << >>)

\* a dispatcher whose last branch reports the negotiation as over
process_negotiation_step_error_complete(state, now) ==
    LET phase == state.negotiation_phase
    IN  IF phase = "initial" THEN brand_initial_offer(state, now)
        ELSE IF phase \in {"waiting_for_influencer_response", "waiting_for_decision"}
          THEN handle_influencer_response(state, now)
        ELSE IF phase = "brand_considering" THEN brand_considers_counter(state, now)
        ELSE IF phase = "final_decision" THEN handle_final_decision(state, now)
        ELSE [negotiation_phase |-> "error", bot_response |-> GenericFailure,
              is_complete |-> TRUE]

process_negotiation_step(state, now) ==
    LET phase == state.negotiation_phase
    IN  IF phase = "initial" THEN brand_initial_offer(state, now)
        ELSE IF phase \in {"waiting_for_influencer_response", "waiting_for_decision"}
          THEN handle_influencer_response(state, now)
        ELSE IF phase = "brand_considering" THEN brand_considers_counter(state, now)
        ELSE IF phase = "final_decision" THEN handle_final_decision(state, now)
        ELSE [negotiation_phase |-> "error", bot_response |-> GenericFailure]

\* for key, value in result.items(): if key != "bot_response" and key != "options": state[key] = value
UpdateState(state, result) ==
    LET keys == DOMAIN result \ {"bot_response", "options"}
    IN  [k \in DOMAIN state \cup keys |-> IF k \in keys THEN result[k] ELSE state[k]]

(***************************************************************************)
(* State.                                                                  *)
(***************************************************************************)
VARIABLES
    \* the dict active_sessions: session id -> [state: reference to a state dict, created_at]
    active_sessions,
    \* the state dicts that are referenced, by reference: from active_sessions, or from the
    \* closure of a generator that has not finished
    heap,
    \* datetime.now(), a logical clock: it advances when a handler reads it on the arrival
    \* of a request; a generator that reads it later gets the latest reading
    clock,
    \* number of session ids uuid4 has generated for stored sessions
    uuids,
    \* the /respond-stream responses being sent, in arrival order, each with the
    \* position of its generator and the variables of its closure
    streams,
    \* the last response (or final stream frame) sent
    response

vars == <<active_sessions, heap, clock, uuids, streams, response>>

\* str(uuid.uuid4()): a value never handed out before
create_session_id == uuids + 1

\* number of character frames stream_message yields for a bot message
NFrames(content) == IF content.tmpl = "" THEN 0 ELSE MaxFrames

HTTPException(status, detail) == [status |-> status, detail |-> detail]

\* s without its r-th element
Remove(s, r) == [i \in 1..(Len(s) - 1) |-> IF i < r THEN s[i] ELSE s[i + 1]]

\* reference counting: a state dict lives while active_sessions or a generator refers to it
Referenced(h, sessions, gens) ==
    LET live == {sessions[k].state : k \in DOMAIN sessions}
                    \cup {gens[i].current_state : i \in 1..Len(gens)}
    IN  [ref \in DOMAIN h \cap live |-> h[ref]]

Init ==
    /\ active_sessions = << >>
    /\ heap = << >>
    /\ clock = 0
    /\ uuids = 0
    /\ streams = << >>
    /\ response = [status |-> 0]

(***************************************************************************)
(* POST /start-negotiation                                                 *)
(***************************************************************************)
\* the dict initial_state
InitialState(budget, campaign_type, duration, session_id, now) ==
    [messages |-> << >>,
     budget |-> budget,
     campaign_type |-> campaign_type,
     duration |-> duration,
     brand_offer |-> 0,
     influencer_offer |-> 0,
     agreed_price |-> None,
     negotiation_phase |-> "initial",
     negotiation_rounds |-> 0,
     user_input |-> << >>,
     session_id |-> session_id,
     created_at |-> now,
     last_activity |-> now]

start_negotiation(budget, campaign_type, duration) ==
    /\ LET session_id == create_session_id
           now == clock + 1
           initial_state == InitialState(budget, campaign_type, duration, session_id, now)
           result == process_negotiation_step(initial_state, now)
           stored == UpdateState(initial_state, result)
       IN  /\ clock' = now
           /\ IF "exception" \in DOMAIN result
                THEN /\ response' = HTTPException(500, result.exception)
                     /\ UNCHANGED <<active_sessions, heap, uuids>>
                ELSE /\ heap' = (session_id :> stored) @@ heap
                     /\ active_sessions' =
                            (session_id :> [state |-> session_id, created_at |-> now]) @@ active_sessions
                     /\ uuids' = uuids + 1
                     /\ response' = [status |-> 200,
                                     session_id |-> session_id,
                                     type |-> "message",
                                     content |-> Get(result, "bot_response", EmptyText),
                                     options |-> Get(result, "options", << >>),
                                     state |-> stored,
                                     is_complete |-> Get(result, "is_complete", FALSE)]
    /\ UNCHANGED streams

(***************************************************************************)
(* POST /respond                                                           *)
(***************************************************************************)
\* a handler that looks the session up with a default, which stores it
respond_to_negotiation_setdefault(session_id, message) ==
    LET now == clock + 1
        known == session_id \in DOMAIN active_sessions
        fresh == [InitialState(0, << >>, << >>, session_id, now) EXCEPT !.user_input = message]
        ref == session_id
        current_state ==
            IF known THEN [heap[ref] EXCEPT !.user_input = message, !.last_activity = now]
            ELSE fresh
        result == process_negotiation_step(current_state, now)
    IN  /\ clock' = now
        /\ active_sessions' =
               IF known THEN active_sessions
               ELSE (session_id :> [state |-> ref, created_at |-> now]) @@ active_sessions
        /\ IF "exception" \in DOMAIN result
             THEN /\ heap' = (ref :> current_state) @@ heap
                  /\ response' = HTTPException(500, result.exception)
             ELSE /\ heap' = (ref :> UpdateState(current_state, result)) @@ heap
                  /\ response' = [status |-> 200,
                                  session_id |-> session_id,
                                  type |-> "message",
                                  content |-> Get(result, "bot_response", EmptyText),
                                  options |-> Get(result, "options", << >>),
                                  state |-> UpdateState(current_state, result),
                                  is_complete |-> Get(result, "is_complete", FALSE)]
        /\ UNCHANGED <<uuids, streams>>

respond_to_negotiation(session_id, message) ==
    IF session_id \notin DOMAIN active_sessions
      THEN /\ response' = HTTPException(404, "Session not found")
           /\ UNCHANGED <<active_sessions, heap, clock, uuids, streams>>
      ELSE /\ LET ref == active_sessions[session_id].state
                  now == clock + 1
                  current_state == [heap[ref] EXCEPT !.user_input = message, !.last_activity = now]
                  result == process_negotiation_step(current_state, now)
                  updated == UpdateState(current_state, result)
              IN  /\ clock' = now
                  /\ IF "exception" \in DOMAIN result
                       THEN /\ heap' = [heap EXCEPT ![ref] = current_state]
                            /\ response' = HTTPException(500, result.exception)
                       ELSE /\ heap' = [heap EXCEPT ![ref] = updated]
                            /\ response' = [status |-> 200,
                                            session_id |-> session_id,
                                            type |-> "message",
                                            content |-> Get(result, "bot_response", EmptyText),
                                            options |-> Get(result, "options", << >>),
                                            state |-> updated,
                                            is_complete |-> Get(result, "is_complete", FALSE)]
           /\ UNCHANGED <<active_sessions, uuids, streams>>

(***************************************************************************)
(* POST /respond-stream.  The handler runs to its return without           *)
(* suspending; the generator runs later, when the response body is         *)
(* iterated, and suspends at every yield.                                  *)
(***************************************************************************)
\* the handler: the lookup, the two writes to the state dict and the StreamingResponse
respond_to_negotiation_stream(session_id, message) ==
    IF session_id \notin DOMAIN active_sessions
      THEN /\ response' = HTTPException(404, "Session not found")
           /\ UNCHANGED <<active_sessions, heap, clock, uuids, streams>>
      ELSE /\ LET ref == active_sessions[session_id].state
                  now == clock + 1
              IN  /\ clock' = now
                  /\ heap' = [heap EXCEPT ![ref] =
                                 [@ EXCEPT !.user_input = message, !.last_activity = now]]
                  /\ streams' = Append(streams,
                                       [pc |-> "accepted",
                                        session_id |-> session_id,
                                        message |-> message,
                                        current_state |-> ref,
                                        bot_response |-> EmptyText,
                                        options |-> << >>,
                                        is_complete |-> FALSE,
                                        sent |-> 0])
           /\ UNCHANGED <<active_sessions, uuids, response>>

\* generate_stream up to its first yield: the step is processed and written to the state dict
generate_stream_process(r) ==
    /\ r \in 1..Len(streams)
    /\ streams[r].pc = "accepted"
    /\ LET ref == streams[r].current_state
           now == clock
           result == process_negotiation_step(heap[ref], now)
       IN  /\ IF "exception" \in DOMAIN result
                THEN /\ streams' = Remove(streams, r)
                     /\ response' = [status |-> 200, type |-> "error", content |-> result.exception]
                     /\ heap' = Referenced(heap, active_sessions, streams')
                ELSE /\ heap' = [heap EXCEPT ![ref] = UpdateState(heap[ref], result)]
                     /\ streams' = [streams EXCEPT
                                       ![r].pc = "streaming",
                                       ![r].bot_response = Get(result, "bot_response", EmptyText),
                                       ![r].options = Get(result, "options", << >>),
                                       ![r].is_complete = Get(result, "is_complete", FALSE)]
                     /\ UNCHANGED response
    /\ UNCHANGED <<active_sessions, clock, uuids>>

\* stream_message: one {"type": "stream"} frame per character
stream_message(r) ==
    /\ r \in 1..Len(streams)
    /\ streams[r].pc = "streaming"
    /\ streams[r].sent < NFrames(streams[r].bot_response)
    /\ streams' = [streams EXCEPT ![r].sent = @ + 1]
    /\ UNCHANGED <<active_sessions, heap, clock, uuids, response>>

\* the final {"type": "complete"} frame, built from the state dict as it is at that moment
generate_stream_complete(r) ==
    /\ r \in 1..Len(streams)
    /\ streams[r].pc = "streaming"
    /\ streams[r].sent = NFrames(streams[r].bot_response)
    /\ streams' = Remove(streams, r)
    /\ response' = [status |-> 200,
                    type |-> "complete",
                    session_id |-> streams[r].session_id,
                    options |-> streams[r].options,
                    state |-> heap[streams[r].current_state],
                    is_complete |-> streams[r].is_complete]
    /\ heap' = Referenced(heap, active_sessions, streams')
    /\ UNCHANGED <<active_sessions, clock, uuids>>

\* the client stops reading: the response task is cancelled and the generator never resumes
client_disconnect(r) ==
    /\ r \in 1..Len(streams)
    /\ streams' = Remove(streams, r)
    /\ heap' = Referenced(heap, active_sessions, streams')
    /\ UNCHANGED <<active_sessions, clock, uuids, response>>

(***************************************************************************)
(* GET /session/{session_id} and DELETE /session/{session_id}              *)
(***************************************************************************)
get_session_state(session_id) ==
    /\ response' =
           IF session_id \notin DOMAIN active_sessions
             THEN HTTPException(404, "Session not found")
             ELSE [status |-> 200,
                   session_id |-> session_id,
                   state |-> heap[active_sessions[session_id].state]]
    /\ UNCHANGED <<active_sessions, heap, clock, uuids, streams>>

\* a delete that clears the whole store
end_session_clear(session_id) ==
    /\ IF session_id \in DOMAIN active_sessions
         THEN /\ active_sessions' = << >>
              /\ heap' = Referenced(heap, << >>, streams)
              /\ response' = [status |-> 200, message |-> "Session ended successfully"]
         ELSE /\ response' = HTTPException(404, "Session not found")
              /\ UNCHANGED <<active_sessions, heap>>
    /\ UNCHANGED <<clock, uuids, streams>>

end_session(session_id) ==
    /\ IF session_id \in DOMAIN active_sessions
         THEN /\ active_sessions' =
                     [k \in DOMAIN active_sessions \ {session_id} |-> active_sessions[k]]
              /\ heap' = Referenced(heap, active_sessions', streams)
              /\ response' = [status |-> 200, message |-> "Session ended successfully"]
         ELSE /\ response' = HTTPException(404, "Session not found")
              /\ UNCHANGED <<active_sessions, heap>>
    /\ UNCHANGED <<clock, uuids, streams>>

(***************************************************************************)
(* The service: any client sends any request at any time.                  *)
(***************************************************************************)
Start ==
    /\ clock < MaxClock
    /\ create_session_id \in SessionIds
    /\ \E b \in Budgets, ct \in CampaignTypes, d \in Durations : start_negotiation(b, ct, d)

Respond ==
    /\ clock < MaxClock
    /\ \E sid \in SessionIds, m \in Messages : respond_to_negotiation(sid, m)

StreamRequest ==
    /\ clock < MaxClock
    /\ Len(streams) < MaxStreams
    /\ \E sid \in SessionIds, m \in Messages : respond_to_negotiation_stream(sid, m)

StreamProcess == \E r \in 1..Len(streams) : generate_stream_process(r)

StreamFrame == \E r \in 1..Len(streams) : stream_message(r)

StreamComplete == \E r \in 1..Len(streams) : generate_stream_complete(r)

Disconnect == \E r \in 1..Len(streams) : client_disconnect(r)

GetSession == \E sid \in SessionIds : get_session_state(sid)

EndSession == \E sid \in SessionIds : end_session(sid)

Next ==
    \/ Start
    \/ Respond
    \/ StreamRequest
    \/ StreamProcess
    \/ StreamFrame
    \/ StreamComplete
    \/ Disconnect
    \/ GetSession
    \/ EndSession

Spec == Init /\ [][Next]_vars

(***************************************************************************)
(* One conversation: a client starts one negotiation and sends its turns   *)
(* one after the other, each as a /respond or as a /respond-stream whose   *)
(* stream it reads to the end, or abandons after the first frames, before  *)
(* it sends the next turn.                                                 *)
(***************************************************************************)
ConversationStart ==
    /\ uuids = 0
    /\ clock = 0
    /\ \E b \in Budgets, ct \in CampaignTypes, d \in Durations : start_negotiation(b, ct, d)

ConversationRespond ==
    /\ clock <= MaxTurns
    /\ streams = << >>
    /\ \E sid \in DOMAIN active_sessions, m \in Messages : respond_to_negotiation(sid, m)

ConversationStream ==
    /\ clock <= MaxTurns
    /\ streams = << >>
    /\ \E sid \in DOMAIN active_sessions, m \in Messages : respond_to_negotiation_stream(sid, m)

\* the client stops reading a stream it has begun to receive
ConversationDisconnect ==
    \E r \in 1..Len(streams) : streams[r].pc = "streaming" /\ client_disconnect(r)

NextConversation ==
    \/ ConversationStart
    \/ ConversationRespond
    \/ ConversationStream
    \/ StreamProcess
    \/ StreamFrame
    \/ StreamComplete
    \/ ConversationDisconnect

SpecConversation == Init /\ [][NextConversation]_vars

(***************************************************************************)
(* The session store: clients start, continue, read and end sessions in    *)
(* any order and with any id; a client that streams a turn has one stream  *)
(* open at a time.                                                         *)
(***************************************************************************)
\* an acceptance, a counter-offer and a question
StoreMessages == {MsgYesPlease, MsgWant115, MsgWhat}

\* a missing budget and a budget
StoreBudgets == {0, 20}

StoreStart ==
    /\ clock < MaxClock
    /\ create_session_id \in SessionIds
    /\ \E b \in StoreBudgets, ct \in CampaignTypes, d \in Durations : start_negotiation(b, ct, d)

StoreRespond ==
    /\ clock < MaxClock
    /\ \E sid \in SessionIds, m \in StoreMessages : respond_to_negotiation(sid, m)

StoreStreamRequest ==
    /\ clock < MaxClock
    /\ streams = << >>
    /\ \E sid \in SessionIds, m \in StoreMessages : respond_to_negotiation_stream(sid, m)

NextStore ==
    \/ StoreStart
    \/ StoreRespond
    \/ StoreStreamRequest
    \/ StreamProcess
    \/ StreamFrame
    \/ StreamComplete
    \/ Disconnect
    \/ GetSession
    \/ EndSession

SpecStore == Init /\ [][NextStore]_vars

(***************************************************************************)
(* Vocabulary of the properties.                                           *)
(***************************************************************************)
\* the state dict of a stored session
Session(sid) == heap[active_sessions[sid].state]

Stored == DOMAIN active_sessions

WaitingPhases == {"waiting_for_influencer_response", "waiting_for_decision"}

TerminalPhases == {"completed", "failed", "error"}

\* floor(budget * 1.15) in exact integer arithmetic
ExactCeiling(budget) == (budget * 115) \div 100

\* the value of the digit run at the head of s, after acc
RECURSIVE ReadNumber(_, _)
ReadNumber(s, acc) ==
    IF s = << >> \/ s[1] \notin {"0","1","2","3","4","5","6","7","8","9"} THEN acc
    ELSE ReadNumber(Tail(s), 10 * acc + (CHOOSE v \in 0..9 : Digits[v + 1] = s[1]))

\* the value of the leftmost run of decimal digits of s, read from left to right
RECURSIVE LeftmostNumber(_)
LeftmostNumber(s) ==
    IF s = << >> THEN -1
    ELSE IF s[1] \in {"0","1","2","3","4","5","6","7","8","9"} THEN ReadNumber(s, 0)
    ELSE LeftmostNumber(Tail(s))

\* the fields of a session that a negotiation step decides
Outcome(st) ==
    <<st.negotiation_phase, st.negotiation_rounds, st.brand_offer, st.influencer_offer,
      st.agreed_price, st.user_input>>

\* the state dict a completed /respond carrying message leaves, from state st at time now
AfterRespond(st, message, now) ==
    LET current_state == [st EXCEPT !.user_input = message, !.last_activity = now]
    IN  UpdateState(current_state, process_negotiation_step(current_state, now))

\* the state dict /start-negotiation stored for the session st belongs to
AsStarted(st) ==
    LET initial_state ==
            InitialState(st.budget, st.campaign_type, st.duration, st.session_id, st.created_at)
    IN  UpdateState(initial_state, process_negotiation_step(initial_state, st.created_at))

\* this transition is a /respond on a stored session, or the processing step of a
\* stream, and EngineStep names the state dict it worked on and the input it processed
RespondStepOn(sid, m) == sid \in Stored /\ respond_to_negotiation(sid, m)

StreamStepOn(r) == r \in 1..Len(streams) /\ generate_stream_process(r)

(***************************************************************************)
(* C1                                                                      *)
(***************************************************************************)
\* C1: in every reachable state of every stored session, agreed_price is not None
\* if and only if negotiation_phase is "completed".
C1_AgreedPriceIffCompleted ==
    \A sid \in Stored :
        (Session(sid).agreed_price # None) <=> (Session(sid).negotiation_phase = "completed")

(***************************************************************************)
(* C2                                                                      *)
(***************************************************************************)
\* C2: after /start-negotiation and N client turns, negotiation_rounds = N + 1.  In a
\* conversation the clock has advanced once for the start and once per turn, so N + 1
\* is the clock; a turn sent as a stream counts once its step has been processed.
C2_RoundsCountTurns ==
    \A sid \in Stored :
        (\A r \in 1..Len(streams) : streams[r].pc # "accepted")
            => Session(sid).negotiation_rounds = clock

(***************************************************************************)
(* C3                                                                      *)
(***************************************************************************)
\* C3: once the phase of a state dict is completed, failed or error, no later request
\* changes it.
C3_TerminalPhasesStay ==
    [][\A ref \in DOMAIN heap \cap DOMAIN heap' :
          heap[ref].negotiation_phase \in TerminalPhases
              => heap'[ref].negotiation_phase = heap[ref].negotiation_phase]_vars

(***************************************************************************)
(* C4                                                                      *)
(***************************************************************************)
\* C4: two concurrent /respond-stream requests on one session are serialized.  When a
\* session has received, since it was started, exactly two requests, both streams still
\* being sent and both processed, its outcome is the one of running the two requests
\* completely one after the other in one of the two orders.
C4_ConcurrentRequestsSerialized ==
    \A sid \in Stored :
        ( /\ Len(streams) = 2
          /\ clock = Session(sid).created_at + 2
          /\ \A r \in 1..2 : streams[r].session_id = sid /\ streams[r].pc = "streaming" )
        => LET s0 == AsStarted(Session(sid))
               m1 == streams[1].message
               m2 == streams[2].message
           IN  Outcome(Session(sid)) \in
                   { Outcome(AfterRespond(AfterRespond(s0, m1, clock), m2, clock)),
                     Outcome(AfterRespond(AfterRespond(s0, m2, clock), m1, clock)) }

(***************************************************************************)
(* C5                                                                      *)
(***************************************************************************)
\* C5: while the response of a /respond-stream is being sent (before the first frame,
\* between frames, before the complete frame) the session is entirely in its
\* pre-request state or entirely in the state a completed /respond with the same
\* message produces.  Stated for the first request a session receives after its start.
C5_StreamCommitsBeforeStreaming ==
    \A sid \in Stored :
        ( /\ Len(streams) = 1
          /\ streams[1].session_id = sid
          /\ clock = Session(sid).created_at + 1 )
        => LET s0 == AsStarted(Session(sid))
           IN  Session(sid) \in {s0, AfterRespond(s0, streams[1].message, clock)}

(***************************************************************************)
(* C6                                                                      *)
(***************************************************************************)
\* a log that kept every earlier entry and gained exactly one
AppendedOne(before, after) ==
    /\ Len(after) = Len(before) + 1
    /\ SubSeq(after, 1, Len(before)) = before

\* C6: messages is an append-only log: every processed step leaves the earlier entries
\* in place and adds exactly one.
C6_MessagesAppendOnly ==
    [][ /\ \A sid \in SessionIds, m \in Messages :
              RespondStepOn(sid, m) =>
                  AppendedOne(Session(sid).messages, Session(sid)'.messages)
        /\ \A r \in 1..MaxStreams :
              StreamStepOn(r) =>
                  AppendedOne(heap[streams[r].current_state].messages,
                              heap'[streams[r].current_state].messages) ]_vars

(***************************************************************************)
(* C7                                                                      *)
(***************************************************************************)
\* a normal response that reports phase error with the generic failure message
NormalErrorResponse(resp) ==
    /\ resp.status = 200
    /\ "state" \in DOMAIN resp
    /\ resp.state.negotiation_phase = "error"
    /\ "content" \in DOMAIN resp
    /\ resp.content = GenericFailure

\* C7: a missing or zero number never fails the request: /start-negotiation with budget
\* 0, and a /respond that processes brand_considering with counter-offer 0, return a
\* normal response with phase error and the generic failure message, and the session
\* is stored.
C7_ZeroNumbersGiveErrorPhase ==
    [][ /\ \A ct \in CampaignTypes, d \in Durations :
              start_negotiation(0, ct, d) =>
                  /\ NormalErrorResponse(response')
                  /\ response'.session_id \in DOMAIN active_sessions'
        /\ \A sid \in SessionIds, m \in Messages :
              ( /\ RespondStepOn(sid, m)
                /\ Session(sid).negotiation_phase = "brand_considering"
                /\ Session(sid).influencer_offer = 0 )
              => /\ NormalErrorResponse(response')
                 /\ sid \in DOMAIN active_sessions' ]_vars

(***************************************************************************)
(* C8                                                                      *)
(***************************************************************************)
\* the step from pre to post on input treated the input as acceptance
AcceptOutcome(pre, input, post) ==
    (pre.negotiation_phase \in WaitingPhases /\ HasAcceptKeyword(input))
    => /\ post.negotiation_phase = "completed"
       /\ post.agreed_price = Some(post.brand_offer)
       /\ post.brand_offer = post.budget
       /\ post.influencer_offer = pre.influencer_offer

\* C8: in a waiting phase every message with an accept keyword, also one that contains
\* a number, is treated as acceptance: the step yields phase completed and
\* agreed_price = brand_offer = budget, and leaves influencer_offer unchanged.
C8_AcceptTakesPrecedence ==
    [][ /\ \A sid \in SessionIds, m \in Messages :
              RespondStepOn(sid, m) => AcceptOutcome(Session(sid), m, Session(sid)')
        /\ \A r \in 1..MaxStreams :
              StreamStepOn(r) =>
                  AcceptOutcome(heap[streams[r].current_state],
                                heap[streams[r].current_state].user_input,
                                heap'[streams[r].current_state]) ]_vars

\* a session completed on its first turn by a message with an accept keyword and a number
C8_Witness ==
    \E sid \in Stored :
        /\ Session(sid).negotiation_phase = "completed"
        /\ Session(sid).negotiation_rounds = 2
        /\ HasAcceptKeyword(Session(sid).user_input)
        /\ LeftmostNumber(Session(sid).user_input) = 115
        /\ Session(sid).agreed_price = Some(Session(sid).budget)

(***************************************************************************)
(* C9                                                                      *)
(***************************************************************************)
\* the step from pre to post on input took the leftmost number as the counter-offer
CounterOutcome(pre, input, post) ==
    ( /\ pre.negotiation_phase \in WaitingPhases
      /\ ~HasAcceptKeyword(input)
      /\ LeftmostNumber(input) >= 0 )
    => /\ post.influencer_offer = LeftmostNumber(input)
       /\ post.negotiation_phase = "brand_considering"
       /\ post.brand_offer = pre.brand_offer
       /\ post.agreed_price = None

\* C9: in a waiting phase a message with no accept keyword and at least one run of
\* decimal digits sets influencer_offer to the value of the leftmost run, moves the
\* phase to brand_considering and leaves brand_offer unchanged and agreed_price None.
C9_CounterTakesLeftmostNumber ==
    [][ /\ \A sid \in SessionIds, m \in Messages :
              RespondStepOn(sid, m) => CounterOutcome(Session(sid), m, Session(sid)')
        /\ \A r \in 1..MaxStreams :
              StreamStepOn(r) =>
                  CounterOutcome(heap[streams[r].current_state],
                                 heap[streams[r].current_state].user_input,
                                 heap'[streams[r].current_state]) ]_vars

\* a session whose counter-offer came from a message with two runs of digits
C9_Witness ==
    \E sid \in Stored :
        /\ Session(sid).negotiation_phase = "brand_considering"
        /\ Session(sid).user_input = Msg23Or99
        /\ Session(sid).influencer_offer = 23
        /\ Session(sid).agreed_price = None

(***************************************************************************)
(* C10                                                                     *)
(***************************************************************************)
\* the step from pre to post decided the counter-offer against floor(budget * 1.15)
StretchOutcome(pre, post) ==
    ( /\ pre.negotiation_phase = "brand_considering"
      /\ pre.budget > 0
      /\ pre.influencer_offer > 0 )
    => IF pre.influencer_offer <= ExactCeiling(pre.budget)
         THEN /\ post.negotiation_phase = "completed"
              /\ post.agreed_price = Some(pre.influencer_offer)
              /\ post.brand_offer = pre.brand_offer
         ELSE /\ post.negotiation_phase = "final_decision"
              /\ post.brand_offer = ExactCeiling(pre.budget)
              /\ post.agreed_price = None

\* C10: a session in brand_considering with budget > 0 and influencer_offer > 0 is
\* completed at influencer_offer when influencer_offer <= floor(budget * 1.15), boundary
\* included, and otherwise gets the final offer floor(budget * 1.15).
C10_StretchDecision ==
    [][ /\ \A sid \in SessionIds, m \in Messages :
              RespondStepOn(sid, m) => StretchOutcome(Session(sid), Session(sid)')
        /\ \A r \in 1..MaxStreams :
              StreamStepOn(r) =>
                  StretchOutcome(heap[streams[r].current_state],
                                 heap'[streams[r].current_state]) ]_vars

(***************************************************************************)
(* C11                                                                     *)
(***************************************************************************)
\* the step from pre to post, when it enters final_decision, wrote the exact ceiling
FinalOfferOutcome(pre, post) ==
    ( /\ pre.negotiation_phase # "final_decision"
      /\ post.negotiation_phase = "final_decision"
      /\ pre.budget > 0 )
    => post.brand_offer = ExactCeiling(pre.budget)

\* C11: the stretch ceiling is exactly floor(budget * 115 / 100): the brand_offer written
\* on entering final_decision equals that value for every positive budget.
C11_CeilingIsExactFloor ==
    [][ /\ \A sid \in SessionIds, m \in Messages :
              RespondStepOn(sid, m) => FinalOfferOutcome(Session(sid), Session(sid)')
        /\ \A r \in 1..MaxStreams :
              StreamStepOn(r) =>
                  FinalOfferOutcome(heap[streams[r].current_state],
                                    heap'[streams[r].current_state]) ]_vars

(***************************************************************************)
(* C12                                                                     *)
(***************************************************************************)
\* the step from pre to post on input decided the final offer
FinalDecisionOutcome(pre, input, post) ==
    pre.negotiation_phase = "final_decision"
    => IF HasAcceptKeyword(input)
         THEN /\ post.negotiation_phase = "completed"
              /\ post.agreed_price = Some(pre.brand_offer)
              /\ post.brand_offer = pre.brand_offer
         ELSE /\ post.negotiation_phase = "failed"
              /\ post.agreed_price = None

\* C12: in final_decision a message with an accept keyword yields completed with
\* agreed_price = brand_offer, the final offer; every other message, also one with a
\* number, yields failed with agreed_price None; no message leaves final_decision.
C12_FinalDecisionResolves ==
    [][ /\ \A sid \in SessionIds, m \in Messages :
              RespondStepOn(sid, m) => FinalDecisionOutcome(Session(sid), m, Session(sid)')
        /\ \A r \in 1..MaxStreams :
              StreamStepOn(r) =>
                  FinalDecisionOutcome(heap[streams[r].current_state],
                                       heap[streams[r].current_state].user_input,
                                       heap'[streams[r].current_state]) ]_vars

\* a session that failed on a message with a number, after a final offer above the budget
C12_Witness ==
    \E sid \in Stored :
        /\ Session(sid).negotiation_phase = "failed"
        /\ LeftmostNumber(Session(sid).user_input) >= 0
        /\ Session(sid).brand_offer > Session(sid).budget
        /\ Session(sid).agreed_price = None

(***************************************************************************)
(* C13                                                                     *)
(***************************************************************************)
\* the answer is not-found and neither the store nor any state dict changed
NotFoundOutcome ==
    /\ response' = HTTPException(404, "Session not found")
    /\ active_sessions' = active_sessions
    /\ heap' = heap
    /\ streams' = streams

\* C13: a /respond or /respond-stream whose session id is not in the store answers 404
\* and leaves the store unchanged: no session is created, no field of a session changes.
C13_UnknownSessionNotFound ==
    [][\A sid \in SessionIds, m \in StoreMessages :
          ( /\ sid \notin Stored
            /\ \/ respond_to_negotiation(sid, m)
               \/ respond_to_negotiation_stream(sid, m) )
          => NotFoundOutcome]_vars

\* a request was answered not-found while one session is stored and another id is not
C13_Witness ==
    /\ response = HTTPException(404, "Session not found")
    /\ \E sid \in SessionIds : sid \in Stored
    /\ \E sid \in SessionIds : sid \notin Stored

(***************************************************************************)
(* C14                                                                     *)
(***************************************************************************)
\* an id that was issued to a stored session and is stored no more
Deleted(sid) == sid \in 1..uuids /\ sid \notin Stored

\* C14: DELETE on a stored session removes exactly that session and leaves every other
\* session unchanged; afterwards GET, /respond, /respond-stream and DELETE for that id
\* answer 404, and the id never reappears in the store, also when a stream for it was
\* in flight at the time of the deletion.
C14_DeleteRemovesExactlyOne ==
    [][\A sid \in SessionIds :
          /\ (sid \in Stored /\ end_session(sid))
                => /\ response'.status = 200
                   /\ DOMAIN active_sessions' = Stored \ {sid}
                   /\ \A other \in Stored \ {sid} :
                          /\ active_sessions'[other] = active_sessions[other]
                          /\ heap'[active_sessions'[other].state] = Session(other)
          /\ Deleted(sid)
                => /\ sid \notin DOMAIN active_sessions'
                   /\ ( \/ get_session_state(sid)
                        \/ end_session(sid)
                        \/ \E m \in StoreMessages : respond_to_negotiation(sid, m)
                        \/ \E m \in StoreMessages : respond_to_negotiation_stream(sid, m) )
                      => response'.status = 404 ]_vars

\* a session was deleted while its stream was in flight, the stream went on, another
\* session is stored, and the last answer was not-found
C14_Witness ==
    \E sid \in SessionIds :
        /\ Deleted(sid)
        /\ \E r \in 1..Len(streams) :
               streams[r].session_id = sid /\ streams[r].pc = "streaming"
        /\ response = HTTPException(404, "Session not found")

(***************************************************************************)
(* C15                                                                     *)
(***************************************************************************)
\* the four fields /start-negotiation fixed
Identity(st) == <<st.session_id, st.budget, st.campaign_type, st.duration>>

\* C15: session_id, budget, campaign_type and duration of a session are immutable: no
\* /respond or /respond-stream, in any phase, changes one of them.
C15_IdentityImmutable ==
    [][\A ref \in DOMAIN heap \cap DOMAIN heap' : Identity(heap'[ref]) = Identity(heap[ref])]_vars

\* a session that went through a counter-offer, a final offer above the budget and a
\* refusal, and was sent one more turn
C15_Witness ==
    \E sid \in Stored :
        /\ Session(sid).negotiation_phase = "error"
        /\ Session(sid).negotiation_rounds = 4
        /\ Session(sid).brand_offer > Session(sid).budget
        /\ Session(sid).influencer_offer > Session(sid).brand_offer
        /\ Session(sid).session_id = sid
        /\ Session(sid).budget \in Budgets
        /\ Session(sid).campaign_type \in CampaignTypes
        /\ Session(sid).duration \in Durations

(***************************************************************************)
(* C16                                                                     *)
(***************************************************************************)
\* the session is stored and in final_decision
InFinalDecision(sid) == sid \in Stored /\ Session(sid).negotiation_phase = "final_decision"

\* brand_offer changes only when the final offer is made, and then from the budget
FinalOfferOnly(pre, post) ==
    post.brand_offer # pre.brand_offer
    => /\ pre.brand_offer = pre.budget
       /\ pre.negotiation_phase # "final_decision"
       /\ post.negotiation_phase = "final_decision"

KeepsWaitingOutcome(pre, input, post) ==
    ( /\ pre.negotiation_phase \in WaitingPhases
      /\ ~HasAcceptKeyword(input)
      /\ LeftmostNumber(input) < 0 )
    => /\ post.negotiation_phase = "waiting_for_decision"
       /\ post.brand_offer = pre.brand_offer
       /\ post.influencer_offer = pre.influencer_offer
       /\ post.agreed_price = pre.agreed_price

\* C17: in a waiting phase a message with no accept keyword and no decimal digit, with
\* or without a details keyword, moves the phase to waiting_for_decision and leaves
\* brand_offer, influencer_offer and agreed_price unchanged; so a session can stay in
\* waiting_for_decision turn after turn.
C17_OtherMessagesKeepWaiting ==
    [][ /\ \A sid \in SessionIds, m \in Messages :
              RespondStepOn(sid, m) => KeepsWaitingOutcome(Session(sid), m, Session(sid)')
        /\ \A r \in 1..MaxStreams :
              StreamStepOn(r) =>
                  KeepsWaitingOutcome(heap[streams[r].current_state],
                                      heap[streams[r].current_state].user_input,
                                      heap'[streams[r].current_state]) ]_vars

\* a session still in waiting_for_decision after MaxTurns turns, the last one a message
\* with no keyword at all
C17_Witness ==
    \E sid \in Stored :
        /\ Session(sid).negotiation_phase = "waiting_for_decision"
        /\ Session(sid).negotiation_rounds = MaxTurns + 1
        /\ Session(sid).user_input = MsgNoThanks
        /\ Session(sid).influencer_offer = 0
        /\ Session(sid).agreed_price = None

(***************************************************************************)
(* C18                                                                     *)
(***************************************************************************)
\* every turn the client has sent has been processed
TurnsProcessed == \A r \in 1..Len(streams) : streams[r].pc # "accepted"

\* the session is in brand_considering after the turn that took the clock to c
ConsideringAt(sid, c) ==
    /\ sid \in Stored
    /\ Session(sid).negotiation_phase = "brand_considering"
    /\ clock = c
    /\ TurnsProcessed

\* two more turns have been sent and processed and the session is not resolved
UnresolvedAfter(sid, c) ==
    /\ sid \in Stored
    /\ clock >= c + 2
    /\ TurnsProcessed
    /\ Session(sid).negotiation_phase \notin TerminalPhases

C19_NeverAboveCeiling ==
    \A sid \in Stored :
        (Session(sid).budget > 0 /\ Session(sid).agreed_price # None)
        => LET agreed == Session(sid).agreed_price[1]
               ceiling == ExactCeiling(Session(sid).budget)
           IN  /\ agreed <= ceiling
               /\ agreed \in {Session(sid).budget, Session(sid).influencer_offer, ceiling}

(***************************************************************************)
(* C20                                                                     *)
(***************************************************************************)
\* the flag is true exactly when the step ended in completed or failed
FlagOutcome(flag, post) == flag <=> post.negotiation_phase \in {"completed", "failed"}

\* C20: the is_complete flag of a /start-negotiation, /respond or /respond-stream
\* response is true if and only if the phase after that step is completed or failed;
\* a step that ends in error reports false.  For a stream the flag is the one its
\* processing step computed, which the complete frame carries.
C20_IsCompleteFlag ==
    [][ /\ \A b \in Budgets, ct \in CampaignTypes, d \in Durations :
              (uuids' # uuids /\ start_negotiation(b, ct, d))
                  => FlagOutcome(response'.is_complete, response'.state)
        /\ \A sid \in SessionIds, m \in Messages :
              RespondStepOn(sid, m) => FlagOutcome(response'.is_complete, Session(sid)')
        /\ \A r \in 1..MaxStreams :
              /\ StreamStepOn(r) =>
                     FlagOutcome(streams'[r].is_complete, heap'[streams[r].current_state])
              /\ (r \in 1..Len(streams) /\ generate_stream_complete(r))
                     => response'.is_complete = streams[r].is_complete ]_vars

\* a /respond answered is_complete true for a failed negotiation
C20_Witness ==
    /\ response.status = 200
    /\ "is_complete" \in DOMAIN response
    /\ response.is_complete
    /\ response.type = "message"
    /\ response.state.negotiation_phase = "failed"

====
